---- MODULE Spec2Model ----
(***************************************************************************)
(* Catalog query service (Django app "products"): the Product/Category     *)
(* tables, the ProductQuerySet filter predicates and search_products, the  *)
(* ProductSearchService facade, and the two HTTP handlers                  *)
(* ProductSearchView.get and ProductDetailView.get.                        *)
(*                                                                         *)
(* Optional values (Python None / a value) are modelled as sets: {} is     *)
(* None and {v} is the value v.  Prices are fixed-point amounts, modelled  *)
(* as whole numbers of the currency unit.  Query-string values are         *)
(* sequences of one-character strings, parsed digit by digit.              *)
(***************************************************************************)
EXTENDS Integers, Sequences, FiniteSets

VARIABLES
    categories,     \* Category table: the set of category ids
    products,       \* Product table: a set of rows with distinct ids
    pc,             \* position of the request being handled
    request,        \* the request in flight (endpoint and raw parameters)
    filters,        \* the filters dict handed to search_products
    rows,           \* the evaluated queryset (sequence of Product rows)
    cursor,         \* how many rows of the queryset the handler has consumed
    products_data,  \* the handler's list of serialized products
    raised,         \* the exception caught by the handler's try block
    response,       \* the JsonResponse returned
    queries,        \* store round trips made for the request in flight
    chain           \* a queryset built by chaining filter predicates directly

vars == <<categories, products, pc, request, filters, rows, cursor,
          products_data, raised, response, queries, chain>>

----------------------------------------------------------------------------
(* Bounds of the model *)

MaxProducts == 2
MaxPrice == 1

ProductIds == 1..MaxProducts
CategoryIds == {1, 2}
Prices == 0..MaxPrice
Times == {1, 2}

----------------------------------------------------------------------------
(* Optional values *)

None == {}
Some(v) == {v}
Val(o) == CHOOSE v \in o : TRUE

Range(s) == {s[i] : i \in 1..Len(s)}

----------------------------------------------------------------------------
(* Tables *)

\* The columns of a Product row other than its id (sku, name and description
\* are read by no filter and are left out).
ProductColumns ==
    [category : CategoryIds, price : Prices, is_active : BOOLEAN,
     created_at : Times]

Row(i, c) ==
    [id |-> i, category |-> c.category, price |-> c.price,
     is_active |-> c.is_active, created_at |-> c.created_at]

\* Every content of the Product table within the bounds: any subset of the
\* ids, each with any columns.
Catalogs ==
    UNION {{{Row(i, f[i]) : i \in D} : f \in [D -> ProductColumns]} :
           D \in SUBSET ProductIds}

----------------------------------------------------------------------------
(* ProductQuerySet: the filter predicates *)

active_products(qs) == {p \in qs : p.is_active}

\* A variant of by_category that drops inactive products as well.
by_category_ActiveOnly(qs, category_id) ==
    {p \in qs : p.category = category_id /\ p.is_active}

\* filter(category_id=category_id)
by_category(qs, category_id) == {p \in qs : p.category = category_id}

by_price_range(qs, min_price, max_price) ==
    {p \in qs : min_price <= p.price /\ p.price <= max_price}

\* Python truthiness of an optional int: None and 0 are both false.
Truthy(category_id) == category_id # None /\ Val(category_id) # 0

\* A variant that also filters when a single bound is given.
SearchFilter_OneSided(qs, category_id, min_price, max_price) ==
    LET q1 == active_products(qs)
        q2 == IF Truthy(category_id) THEN by_category(q1, Val(category_id)) ELSE q1
    IN {p \in q2 : /\ (min_price # None => Val(min_price) <= p.price)
                   /\ (max_price # None => p.price <= Val(max_price))}

\* The WHERE clause search_products builds.
SearchFilter(qs, category_id, min_price, max_price) ==
    LET q1 == active_products(qs)
        q2 == IF Truthy(category_id) THEN by_category(q1, Val(category_id)) ELSE q1
        q3 == IF min_price # None /\ max_price # None
              THEN by_price_range(q2, Val(min_price), Val(max_price))
              ELSE q2
    IN q3

Orderings(S) ==
    {s \in [1..Cardinality(S) -> S] : \A i, j \in 1..Cardinality(S) : s[i] = s[j] => i = j}

\* A variant ordering oldest first.
OrderByCreatedAt_Ascending(S) ==
    {s \in Orderings(S) :
        \A i, j \in 1..Len(s) : i < j => s[i].created_at <= s[j].created_at}

\* ORDER BY created_at DESC: the store may return rows of equal created_at
\* in any order, so every such sequence is a possible evaluation.
OrderByCreatedAt(S) ==
    {s \in Orderings(S) :
        \A i, j \in 1..Len(s) : i < j => s[i].created_at >= s[j].created_at}

\* The possible evaluations of search_products(...) over the table qs.
search_products(qs, category_id, min_price, max_price) ==
    OrderByCreatedAt(SearchFilter(qs, category_id, min_price, max_price))

----------------------------------------------------------------------------
(* Request-local state *)

NoException == [exc |-> "", msg |-> ""]
NoRequest == [endpoint |-> "", category_id |-> None, min_price |-> None,
              max_price |-> None, product_id |-> None]
NoFilters == [category_id |-> None, min_price |-> None, max_price |-> None]
NoResponse == [status |-> 0, success |-> FALSE, error |-> "",
               products |-> <<>>, count |-> 0, product |-> None]
NoChain == [applied |-> <<>>, view |-> {}]

Idle ==
    /\ pc = "idle"
    /\ request = NoRequest
    /\ filters = NoFilters
    /\ rows = <<>>
    /\ cursor = 0
    /\ products_data = <<>>
    /\ raised = NoException
    /\ response = NoResponse
    /\ queries = 0
    /\ chain = NoChain

----------------------------------------------------------------------------
(* Direct calls of the queryset API, as the model tests make them *)

CategoryIdArgs == {None} \cup {Some(c) : c \in {-1, 0, 3} \cup CategoryIds}
PriceArgs == {None} \cup {Some(x) : x \in Prices}

\* list(Product.objects.search_products(category_id=..., min_price=..., max_price=...))
CallSearchProducts(category_id, min_price, max_price) ==
    /\ pc = "idle"
    /\ \E s \in search_products(products, category_id, min_price, max_price) :
           rows' = s
    /\ filters' = [category_id |-> category_id, min_price |-> min_price,
                   max_price |-> max_price]
    /\ pc' = "evaluated"
    /\ UNCHANGED <<chain, categories, products, request, cursor, products_data,
                   raised, response, queries>>

InitQuery ==
    /\ categories = CategoryIds
    /\ products \in Catalogs
    /\ Idle

NextQuery ==
    \E c \in CategoryIdArgs, mn \in PriceArgs, mx \in PriceArgs :
        CallSearchProducts(c, mn, mx)

SpecQuery == InitQuery /\ [][NextQuery]_vars

----------------------------------------------------------------------------
(* Direct chaining of the filter predicates on a queryset *)

ChainCategoryIds == {-1, 0, 3} \cup CategoryIds

\* Catalogs for the chaining runs: created_at, which no predicate reads, is
\* the same for every product.
ChainCatalogs == {S \in Catalogs : \A p \in S : p.created_at = 1}

\* The queryset the next predicate is applied to: the whole table
\* (ProductManager.get_queryset) when nothing has been applied yet.
CurrentView == IF chain.applied = <<>> THEN products ELSE chain.view

\* qs.active_products()
ChainActiveProducts ==
    /\ pc \in {"idle", "chained"}
    /\ \A i \in 1..Len(chain.applied) : chain.applied[i] # "active_products"
    /\ chain' = [applied |-> Append(chain.applied, "active_products"),
                 view |-> active_products(CurrentView)]
    /\ pc' = "chained"
    /\ UNCHANGED <<categories, products, request, filters, rows, cursor,
                   products_data, raised, response, queries>>

\* qs.by_category(category_id)
ChainByCategory(category_id) ==
    /\ pc \in {"idle", "chained"}
    /\ \A i \in 1..Len(chain.applied) : chain.applied[i] # "by_category"
    /\ chain' = [applied |-> Append(chain.applied, "by_category"),
                 view |-> by_category(CurrentView, category_id)]
    /\ filters' = [filters EXCEPT !.category_id = Some(category_id)]
    /\ pc' = "chained"
    /\ UNCHANGED <<categories, products, request, rows, cursor, products_data,
                   raised, response, queries>>

\* qs.by_price_range(min_price, max_price)
ChainByPriceRange(min_price, max_price) ==
    /\ pc \in {"idle", "chained"}
    /\ \A i \in 1..Len(chain.applied) : chain.applied[i] # "by_price_range"
    /\ chain' = [applied |-> Append(chain.applied, "by_price_range"),
                 view |-> by_price_range(CurrentView, min_price, max_price)]
    /\ filters' = [filters EXCEPT !.min_price = Some(min_price),
                                  !.max_price = Some(max_price)]
    /\ pc' = "chained"
    /\ UNCHANGED <<categories, products, request, rows, cursor, products_data,
                   raised, response, queries>>

InitChain ==
    /\ categories = CategoryIds
    /\ products \in ChainCatalogs
    /\ Idle

NextChain ==
    \/ ChainActiveProducts
    \/ \E c \in ChainCategoryIds : ChainByCategory(c)
    \/ \E mn \in Prices, mx \in Prices : ChainByPriceRange(mn, mx)

SpecChain == InitChain /\ [][NextChain]_vars

----------------------------------------------------------------------------
(* Parsing of query-string values *)

DigitChars == <<"0", "1", "2", "3", "4", "5", "6", "7", "8", "9">>

IsDigit(ch) == \E i \in 1..Len(DigitChars) : DigitChars[i] = ch
DigitValue(ch) == (CHOOSE i \in 1..Len(DigitChars) : DigitChars[i] = ch) - 1
IsDigits(s) == Len(s) > 0 /\ \A i \in 1..Len(s) : IsDigit(s[i])

RECURSIVE DigitsValue(_)
DigitsValue(s) ==
    IF s = <<>> THEN 0
    ELSE 10 * DigitsValue(SubSeq(s, 1, Len(s) - 1)) + DigitValue(s[Len(s)])

\* A signed decimal numeral, or None when the text is no numeral.
Numeral(s) ==
    IF IsDigits(s) THEN Some(DigitsValue(s))
    ELSE IF Len(s) > 1 /\ s[1] = "-" /\ IsDigits(Tail(s))
         THEN Some(0 - DigitsValue(Tail(s)))
    ELSE IF Len(s) > 1 /\ s[1] = "+" /\ IsDigits(Tail(s))
         THEN Some(DigitsValue(Tail(s)))
    ELSE None

\* int(text): None stands for the ValueError int() raises.
ParseInt(s) == Numeral(s)

\* decimal.Decimal(text): None stands for decimal.InvalidOperation.
ParseDecimal(s) == Numeral(s)

----------------------------------------------------------------------------
(* Messages *)

CategoryIdMessage == "category_id must be a valid number"
MinPriceMessage == "min_price must be a valid dollar amount"
MaxPriceMessage == "max_price must be a valid dollar amount"
NegativePriceMessage == "Price cannot be negative"
PriceOrderMessage == "Minimum price cannot be greater than maximum price"
DatabaseErrorMessage == "Database error occurred"
NotFoundMessage == "Product not found"
InvalidParameterPrefix == "Invalid parameter: "
SearchUnexpectedPrefix == "Unexpected server error: "
DetailUnexpectedPrefix == "Unexpected error: "

Exception(kind, text) == [exc |-> kind, msg |-> text]

----------------------------------------------------------------------------
(* ProductSearchView: parameter extraction *)

\* A variant that ignores a category_id it cannot parse.
get_category_id_Lenient(param) ==
    IF param = None \/ Val(param) = <<>> \/ ParseInt(Val(param)) = None
    THEN [exc |-> "", msg |-> "", value |-> None]
    ELSE [exc |-> "", msg |-> "", value |-> ParseInt(Val(param))]

\* _get_category_id: the parsed id, None when the parameter is absent or
\* empty, ValueError when it is no integer.
get_category_id(param) ==
    IF param = None \/ Val(param) = <<>>
    THEN [exc |-> "", msg |-> "", value |-> None]
    ELSE IF ParseInt(Val(param)) = None
         THEN [exc |-> "ValueError", msg |-> CategoryIdMessage, value |-> None]
         ELSE [exc |-> "", msg |-> "", value |-> ParseInt(Val(param))]

\* One "if ..._str: try: ... except (ValueError, InvalidOperation): raise ..."
\* block of _get_price_range.  The ValueError raised for a negative amount is
\* raised inside the try block, so the except clause catches it as well.
ParsePrice(param, message) ==
    IF param = None \/ Val(param) = <<>>
    THEN [exc |-> "", msg |-> "", value |-> None]
    ELSE LET d == ParseDecimal(Val(param))
             inner == IF d = None
                      THEN Exception("InvalidOperation", "Invalid literal for Decimal")
                      ELSE IF Val(d) < 0
                           THEN Exception("ValueError", NegativePriceMessage)
                           ELSE NoException
         IN IF inner.exc \in {"ValueError", "InvalidOperation"}
            THEN [exc |-> "ValueError", msg |-> message, value |-> None]
            ELSE [exc |-> "", msg |-> "", value |-> d]

\* _get_price_range: min_price is parsed first; max_price only if that passed.
get_price_range(min_param, max_param) ==
    LET mn == ParsePrice(min_param, MinPriceMessage)
        mx == ParsePrice(max_param, MaxPriceMessage)
    IN IF mn.exc # ""
       THEN [exc |-> mn.exc, msg |-> mn.msg, min_price |-> None, max_price |-> None]
       ELSE IF mx.exc # ""
            THEN [exc |-> mx.exc, msg |-> mx.msg, min_price |-> None, max_price |-> None]
            ELSE [exc |-> "", msg |-> "", min_price |-> mn.value, max_price |-> mx.value]

\* A variant that also rejects equal bounds.
PriceRangeInverted_OrEqual(min_price, max_price) ==
    min_price # None /\ max_price # None /\ Val(min_price) >= Val(max_price)

\* "if min_price is not None and max_price is not None: if min_price > max_price"
PriceRangeInverted(min_price, max_price) ==
    min_price # None /\ max_price # None /\ Val(min_price) > Val(max_price)

----------------------------------------------------------------------------
(* Responses *)

ErrorResponse(status, message) ==
    [status |-> status, success |-> FALSE, error |-> message,
     products |-> <<>>, count |-> 0, product |-> None]

\* The JSON object built for one product.
ProductData(p) ==
    [id |-> p.id, price |-> p.price, is_active |-> p.is_active,
     category |-> [id |-> p.category], created_at |-> p.created_at]

\* A variant without the DatabaseError clause.
SearchErrorResponse_NoDatabaseClause(e) ==
    IF e.exc = "ValueError"
    THEN ErrorResponse(400, InvalidParameterPrefix \o e.msg)
    ELSE ErrorResponse(500, SearchUnexpectedPrefix \o e.msg)

\* The except clauses of ProductSearchView.get, in order.
SearchErrorResponse(e) ==
    IF e.exc = "ValueError"
    THEN ErrorResponse(400, InvalidParameterPrefix \o e.msg)
    ELSE IF e.exc = "DatabaseError"
         THEN ErrorResponse(500, DatabaseErrorMessage)
         ELSE ErrorResponse(500, SearchUnexpectedPrefix \o e.msg)

\* The except clauses of ProductDetailView.get, in order.
DetailErrorResponse(e) ==
    IF e.exc = "ObjectDoesNotExist"
    THEN ErrorResponse(404, NotFoundMessage)
    ELSE IF e.exc = "DatabaseError"
         THEN ErrorResponse(500, DatabaseErrorMessage)
         ELSE ErrorResponse(500, DetailUnexpectedPrefix \o e.msg)

----------------------------------------------------------------------------
(* ProductSearchService *)

\* A variant that looks up active products only.
get_product_detail_ActiveOnly(qs, product_id) ==
    {p \in qs : p.id = product_id /\ p.is_active}

\* Product.objects.select_related('category').get(id=product_id): the row, or
\* None for Product.DoesNotExist.
get_product_detail(qs, product_id) == {p \in qs : p.id = product_id}

----------------------------------------------------------------------------
(* Requests and faults *)

Digit(n) == <<DigitChars[n + 1]>>

CategoryIdParams ==
    {None} \cup {Some(s) : s \in {<<>>, <<"a">>, <<"0">>, <<"-", "1">>, <<"1">>, <<"3">>}}

PriceParams ==
    {None} \cup {Some(s) : s \in {<<"a">>, <<"-", "1">>} \cup {Digit(n) : n \in Prices}}

\* The <int:product_id> path converter delivers a non-negative int.
ProductIdParams == 0..(MaxProducts + 1)

\* The texts of the non-store exceptions considered.
FaultTexts == {"Python int too large to convert to SQLite INTEGER",
               "maximum recursion depth exceeded"}
StoreFaultTexts == {"database is locked"}

----------------------------------------------------------------------------
(* ProductSearchView.get *)

\* Parameter extraction, the price-order check and the (lazy) service call.
SearchGet(category_param, min_param, max_param) ==
    /\ pc = "idle"
    /\ request' = [endpoint |-> "search", category_id |-> category_param,
                   min_price |-> min_param, max_price |-> max_param,
                   product_id |-> None]
    /\ LET c == get_category_id(category_param)
           r == get_price_range(min_param, max_param)
       IN IF c.exc # ""
          THEN /\ raised' = Exception(c.exc, c.msg)
               /\ response' = SearchErrorResponse(raised')
               /\ pc' = "done"
               /\ UNCHANGED filters
          ELSE IF r.exc # ""
          THEN /\ raised' = Exception(r.exc, r.msg)
               /\ response' = SearchErrorResponse(raised')
               /\ pc' = "done"
               /\ UNCHANGED filters
          ELSE IF PriceRangeInverted(r.min_price, r.max_price)
          THEN /\ response' = ErrorResponse(400, PriceOrderMessage)
               /\ pc' = "done"
               /\ UNCHANGED <<raised, filters>>
          ELSE /\ filters' = [category_id |-> c.value, min_price |-> r.min_price,
                              max_price |-> r.max_price]
               /\ pc' = "search_query"
               /\ UNCHANGED <<raised, response>>
    /\ UNCHANGED <<chain, categories, products, rows, cursor, products_data, queries>>

\* "for product in products_queryset": the queryset is evaluated, in one
\* query that joins the category.
SearchFetch ==
    /\ pc = "search_query"
    /\ \E s \in search_products(products, filters.category_id,
                                filters.min_price, filters.max_price) :
           rows' = s
    /\ queries' = queries + 1
    /\ pc' = "search_rows"
    /\ UNCHANGED <<chain, categories, products, request, filters, cursor,
                   products_data, raised, response>>

\* A variant without select_related: the category is fetched lazily, by one
\* more query, when the row's category fields are first read.
CategoryQueries_Lazy(p) == IF p.category \in CategoryIds THEN 1 ELSE 0

\* The queries that reading product.category.id and product.category.name
\* costs: none, because select_related('category') joined the category.
CategoryQueries(p) == 0

\* One turn of the loop: the next product is serialized.
SearchSerializeRow ==
    /\ pc = "search_rows"
    /\ cursor < Len(rows)
    /\ products_data' = Append(products_data, ProductData(rows[cursor + 1]))
    /\ queries' = queries + CategoryQueries(rows[cursor + 1])
    /\ cursor' = cursor + 1
    /\ UNCHANGED <<chain, categories, products, pc, request, filters, rows, raised,
                   response>>

\* The loop is over: the 200 response.
SearchRespond ==
    /\ pc = "search_rows"
    /\ cursor = Len(rows)
    /\ response' = [status |-> 200, success |-> TRUE, error |-> "",
                    products |-> products_data, count |-> Len(products_data),
                    product |-> None]
    /\ pc' = "done"
    /\ UNCHANGED <<chain, categories, products, request, filters, rows, cursor,
                   products_data, raised, queries>>

\* The store fails while the query runs or while its rows are read.
SearchStoreFailure(text) ==
    /\ pc \in {"search_query", "search_rows"}
    /\ raised' = Exception("DatabaseError", text)
    /\ response' = SearchErrorResponse(raised')
    /\ queries' = IF pc = "search_query" THEN queries + 1 ELSE queries
    /\ pc' = "done"
    /\ UNCHANGED <<chain, categories, products, request, filters, rows, cursor,
                   products_data>>

\* Any other exception is raised at those points.
SearchUnexpectedFault(text) ==
    /\ pc \in {"search_query", "search_rows"}
    /\ raised' = Exception("Exception", text)
    /\ response' = SearchErrorResponse(raised')
    /\ queries' = IF pc = "search_query" THEN queries + 1 ELSE queries
    /\ pc' = "done"
    /\ UNCHANGED <<chain, categories, products, request, filters, rows, cursor,
                   products_data>>

----------------------------------------------------------------------------
(* ProductDetailView.get *)

\* The id check (an int passes it) and int(product_id).
DetailGet(product_id) ==
    /\ pc = "idle"
    /\ request' = [endpoint |-> "detail", category_id |-> None,
                   min_price |-> None, max_price |-> None,
                   product_id |-> Some(product_id)]
    /\ pc' = "detail_query"
    /\ UNCHANGED <<chain, categories, products, filters, rows, cursor, products_data,
                   raised, response, queries>>

\* The keyed lookup and the response built from it.
DetailLookup ==
    /\ pc = "detail_query"
    /\ LET found == get_product_detail(products, Val(request.product_id))
       IN IF found = None
          THEN /\ raised' = Exception("ObjectDoesNotExist",
                                      "Product matching query does not exist.")
               /\ response' = DetailErrorResponse(raised')
          ELSE /\ response' = [status |-> 200, success |-> TRUE, error |-> "",
                               products |-> <<>>, count |-> 0,
                               product |-> Some(ProductData(Val(found)))]
               /\ UNCHANGED raised
    /\ queries' = queries + 1
    /\ pc' = "done"
    /\ UNCHANGED <<chain, categories, products, request, filters, rows, cursor,
                   products_data>>

\* The store fails during the lookup.
DetailStoreFailure(text) ==
    /\ pc = "detail_query"
    /\ raised' = Exception("DatabaseError", text)
    /\ response' = DetailErrorResponse(raised')
    /\ queries' = queries + 1
    /\ pc' = "done"
    /\ UNCHANGED <<chain, categories, products, request, filters, rows, cursor,
                   products_data>>

\* Any other exception is raised during the lookup.
DetailUnexpectedFault(text) ==
    /\ pc = "detail_query"
    /\ raised' = Exception("Exception", text)
    /\ response' = DetailErrorResponse(raised')
    /\ queries' = queries + 1
    /\ pc' = "done"
    /\ UNCHANGED <<chain, categories, products, request, filters, rows, cursor,
                   products_data>>

\* A variant in which the handler keeps the last filters for the next request.
Finish_KeepsFilters ==
    /\ pc = "done"
    /\ pc' = "idle"
    /\ request' = NoRequest
    /\ rows' = <<>>
    /\ cursor' = 0
    /\ products_data' = <<>>
    /\ raised' = NoException
    /\ response' = NoResponse
    /\ queries' = 0
    /\ UNCHANGED <<chain, categories, products, filters>>

\* The handler has returned; nothing of the request is kept.
Finish ==
    /\ pc = "done"
    /\ pc' = "idle"
    /\ request' = NoRequest
    /\ filters' = NoFilters
    /\ rows' = <<>>
    /\ cursor' = 0
    /\ products_data' = <<>>
    /\ raised' = NoException
    /\ response' = NoResponse
    /\ queries' = 0
    /\ UNCHANGED <<chain, categories, products>>

----------------------------------------------------------------------------
(* The service under HTTP requests *)

\* Catalogs for the HTTP runs: any subset of the ids, each product active or
\* not and of any created_at; category and price are fixed by the id.
HttpCatalogs ==
    {S \in Catalogs : \A p \in S : /\ p.category = 1 + (p.id % 2)
                                   /\ p.price = p.id % (MaxPrice + 1)}

Init ==
    /\ categories = CategoryIds
    /\ products \in HttpCatalogs
    /\ Idle

Next ==
    \/ \E c \in CategoryIdParams, mn \in PriceParams, mx \in PriceParams :
           SearchGet(c, mn, mx)
    \/ SearchFetch
    \/ SearchSerializeRow
    \/ SearchRespond
    \/ \E t \in StoreFaultTexts : SearchStoreFailure(t)
    \/ \E t \in FaultTexts : SearchUnexpectedFault(t)
    \/ \E i \in ProductIdParams : DetailGet(i)
    \/ DetailLookup
    \/ \E t \in StoreFaultTexts : DetailStoreFailure(t)
    \/ \E t \in FaultTexts : DetailUnexpectedFault(t)
    \/ Finish

Spec == Init /\ [][Next]_vars

----------------------------------------------------------------------------
(* Claims about search_products, checked under SpecQuery *)

Given(o) == o # None
BothBounds == Given(filters.min_price) /\ Given(filters.max_price)

\* The result set the search contract describes for the filters of the call.
ContractSet ==
    {p \in products :
        /\ p.is_active
        /\ (Given(filters.category_id) => p.category = Val(filters.category_id))
        /\ (BothBounds => /\ Val(filters.min_price) <= p.price
                          /\ p.price <= Val(filters.max_price))}

\* C1: search_products returns exactly the products that are active, of the
\* supplied category (when a category id is supplied) and within the inclusive
\* price range (when both bounds are supplied).
C1_SearchReturnsContractSet ==
    pc = "evaluated" => Range(rows) = ContractSet

\* C2: for every integer C supplied as category_id (0 and negative values
\* included), the search returns only products of category C, all of them
\* results of the unfiltered search; a C of no category gives no result.
C2_CategoryOnlyAndSubset ==
    (pc = "evaluated" /\ Given(filters.category_id)) =>
        /\ \A p \in Range(rows) : p.category = Val(filters.category_id)
        /\ Range(rows) \subseteq SearchFilter(products, None, None, None)
        /\ (Val(filters.category_id) \notin categories => rows = <<>>)

\* C3: a search supplying exactly one price bound returns the same result set
\* as the same search supplying neither bound.
C3_SingleBoundIgnored ==
    (pc = "evaluated" /\ Given(filters.min_price) # Given(filters.max_price)) =>
        Range(rows) = SearchFilter(products, filters.category_id, None, None)

\* A call with only min_price given returned an active product priced below it.
C3_Witness ==
    /\ pc = "evaluated"
    /\ Given(filters.min_price) /\ ~Given(filters.max_price)
    /\ \E p \in Range(rows) : p.price < Val(filters.min_price)

\* C4 as stated: the result is ordered by (created_at, id), both descending.
C4_OrderedByCreatedAtThenId ==
    pc = "evaluated" =>
        \A i, j \in 1..Len(rows) : i < j =>
            \/ rows[i].created_at > rows[j].created_at
            \/ /\ rows[i].created_at = rows[j].created_at
               /\ rows[i].id > rows[j].id

\* C4 as amended: the result is ordered by created_at descending (newest
\* first); nothing orders products of equal created_at.
C4_OrderedByCreatedAtDesc ==
    pc = "evaluated" =>
        \A i, j \in 1..Len(rows) : i < j =>
            rows[i].created_at >= rows[j].created_at

\* A search returned two products of different created_at.
C4_Witness ==
    /\ pc = "evaluated"
    /\ Len(rows) >= 2
    /\ rows[1].created_at > rows[Len(rows)].created_at

----------------------------------------------------------------------------
(* Claims about the HTTP handlers, checked under Spec *)

SearchDone == pc = "done" /\ request.endpoint = "search"
DetailDone == pc = "done" /\ request.endpoint = "detail"

\* A parameter is supplied when it is present and not the empty string.
Supplied(param) == param # None /\ Val(param) # <<>>
Unparsable(param) == Supplied(param) /\ Numeral(Val(param)) = None
Negative(param) ==
    Supplied(param) /\ Numeral(Val(param)) # None /\ Val(Numeral(Val(param))) < 0
\* Absent, or a non-negative amount.
Accepted(param) == ~Unparsable(param) /\ ~Negative(param)
Amount(param) == Val(Numeral(Val(param)))

Rejection(message) ==
    [status |-> 400, success |-> FALSE, error |-> message,
     products |-> <<>>, count |-> 0, product |-> None]

\* C5 as stated: the parameter that fails to parse produces a 400 whose error
\* is exactly that parameter's validation message.
C5_ParseFailureExactMessage ==
    SearchDone =>
        /\ Unparsable(request.category_id) =>
               response = Rejection("category_id must be a valid number")
        /\ (~Unparsable(request.category_id) /\ Unparsable(request.min_price)) =>
               response = Rejection("min_price must be a valid dollar amount")
        /\ (/\ ~Unparsable(request.category_id)
            /\ Accepted(request.min_price)
            /\ Unparsable(request.max_price)) =>
               response = Rejection("max_price must be a valid dollar amount")

\* C5 as amended: the error is "Invalid parameter: " followed by the
\* validation message of the first parameter, in the order category_id,
\* min_price, max_price, that fails to parse.
C5_ParseFailurePrefixedMessage ==
    SearchDone =>
        /\ Unparsable(request.category_id) =>
               response =
                   Rejection("Invalid parameter: category_id must be a valid number")
        /\ (~Unparsable(request.category_id) /\ Unparsable(request.min_price)) =>
               response =
                   Rejection("Invalid parameter: min_price must be a valid dollar amount")
        /\ (/\ ~Unparsable(request.category_id)
            /\ Accepted(request.min_price)
            /\ Unparsable(request.max_price)) =>
               response =
                   Rejection("Invalid parameter: max_price must be a valid dollar amount")

\* A search whose max_price alone fails to parse was answered 400.
C5_Witness ==
    /\ SearchDone
    /\ ~Unparsable(request.category_id)
    /\ Accepted(request.min_price)
    /\ Unparsable(request.max_price)
    /\ response.status = 400

\* C6: a min_price or max_price that parses but is negative is rejected with
\* 400 and the message "Price cannot be negative" (bare or behind the
\* handler's prefix), not with the parameter's parse-failure message.
C6_NegativePriceMessage ==
    (/\ SearchDone
     /\ ~Unparsable(request.category_id)
     /\ \/ Negative(request.min_price)
        \/ Accepted(request.min_price) /\ Negative(request.max_price)) =>
        /\ response.status = 400
        /\ response.success = FALSE
        /\ response.error \in {"Price cannot be negative",
                               "Invalid parameter: Price cannot be negative"}

BothAmounts ==
    /\ Supplied(request.min_price) /\ Accepted(request.min_price)
    /\ Supplied(request.max_price) /\ Accepted(request.max_price)

\* C7 as stated: whenever both prices are present and valid, the response is
\* the 400 "Minimum price cannot be greater than maximum price" if
\* min_price > max_price, and never carries that error if min_price <= max_price.
C7_PriceOrderError ==
    (SearchDone /\ BothAmounts) =>
        IF Amount(request.min_price) > Amount(request.max_price)
        THEN response =
                 Rejection("Minimum price cannot be greater than maximum price")
        ELSE response.error # "Minimum price cannot be greater than maximum price"

\* C7 as amended: the same, for requests whose category_id is absent or
\* parses (a category_id that fails to parse is reported first).
C7_PriceOrderErrorAfterCategory ==
    (SearchDone /\ BothAmounts /\ ~Unparsable(request.category_id)) =>
        IF Amount(request.min_price) > Amount(request.max_price)
        THEN response =
                 Rejection("Minimum price cannot be greater than maximum price")
        ELSE response.error # "Minimum price cannot be greater than maximum price"

\* A search with min_price above max_price was rejected for it.
C7_Witness ==
    /\ SearchDone
    /\ BothAmounts
    /\ Amount(request.min_price) > Amount(request.max_price)
    /\ response.error = "Minimum price cannot be greater than maximum price"

StoreOrOtherFault == raised.exc \in {"DatabaseError", "Exception"}

\* C8: unless the request faulted, the detail lookup answers 200 with the
\* product of that id exactly when a product with that id exists, active or
\* not, and 404 "Product not found" when none does.
C8_DetailIffExists ==
    (DetailDone /\ ~StoreOrOtherFault) =>
        LET id == Val(request.product_id)
            stored == {p \in products : p.id = id}
        IN /\ (stored # {}) <=> (response.status = 200 /\ response.success)
           /\ (stored # {}) =>
                  /\ response.product # None
                  /\ Val(response.product).id = id
                  /\ Val(response.product).is_active = Val(stored).is_active
           /\ (stored = {}) =>
                  response = [status |-> 404, success |-> FALSE,
                              error |-> "Product not found", products |-> <<>>,
                              count |-> 0, product |-> None]

\* The detail of an inactive product was returned.
C8_Witness ==
    /\ DetailDone
    /\ response.status = 200
    /\ response.product # None
    /\ ~Val(response.product).is_active

\* C9: on both endpoints a store failure is answered 500 with
\* "Database error occurred", and every finished request has a response.
C9_StoreFailureIs500 ==
    pc = "done" =>
        /\ response.status \in {200, 400, 404, 500}
        /\ raised.exc = "DatabaseError" =>
               response = [status |-> 500, success |-> FALSE,
                           error |-> "Database error occurred",
                           products |-> <<>>, count |-> 0, product |-> None]

\* The store failed after the search had serialized a product.
C9_Witness ==
    /\ SearchDone
    /\ raised.exc = "DatabaseError"
    /\ Len(products_data) > 0
    /\ response.status = 500

\* C10: a fault that is neither a validation error nor a store failure is
\* answered 500 with the same error text whatever the exception's text is.
C10_UnexpectedFaultGenericMessage ==
    (SearchDone /\ raised.exc = "Exception") =>
        /\ response.status = 500
        /\ \A t \in FaultTexts :
               response.error = SearchErrorResponse(Exception("Exception", t)).error

----------------------------------------------------------------------------
(* Claims about store round trips, checked under Spec *)

\* C11: no request makes more than one store round trip; a search answered
\* 200 has made exactly one, whatever the size of its result; a request
\* rejected by validation (400) has made none and never reached the service.
C11_OneRoundTrip ==
    /\ queries <= 1
    /\ (SearchDone /\ response.status = 200) => queries = 1
    /\ (pc = "search_rows") => queries = 1
    /\ (pc = "done" /\ response.status = 400) =>
           /\ queries = 0
           /\ filters = NoFilters
           /\ rows = <<>>

\* A search that returned two products, with their categories, in one query.
C11_Witness ==
    /\ SearchDone
    /\ response.status = 200
    /\ response.count >= 2
    /\ queries = 1

----------------------------------------------------------------------------
(* Claims about the frame of the handlers, checked under Spec *)

\* The result set that the request in flight has on the catalog.
RequestResultSet ==
    LET c == get_category_id(request.category_id)
        r == get_price_range(request.min_price, request.max_price)
    IN {ProductData(p) : p \in SearchFilter(products, c.value, r.min_price, r.max_price)}

\* C12: no step of any request, successful or failing, changes the Category
\* or Product rows; between requests no request state is left; and the result
\* set of a search is determined by the request and the catalog alone.
C12_ReadOnlyStateless ==
    /\ [][products' = products /\ categories' = categories]_vars
    /\ [](pc = "idle" => Idle)
    /\ []((SearchDone /\ response.status = 200) =>
              /\ Range(response.products) = RequestResultSet
              /\ response.count = Cardinality(RequestResultSet))

\* A search was answered with a product while the table also holds an
\* inactive one.
C12_Witness ==
    /\ SearchDone
    /\ response.status = 200
    /\ response.count >= 1
    /\ \E p \in products : ~p.is_active

----------------------------------------------------------------------------
(* Claims about the filter predicates, checked under SpecChain *)

\* What each predicate, by its name, requires of a product.
Requires(name, p) ==
    IF name = "active_products" THEN p.is_active
    ELSE IF name = "by_category" THEN p.category = Val(filters.category_id)
    ELSE /\ Val(filters.min_price) <= p.price
         /\ p.price <= Val(filters.max_price)

====
